---- MODULE Spec2Model ----
(***************************************************************************)
(* Model of McAshesha/project-activities:                                  *)
(*   task-1/main.py  drawing validated shapes on an image                  *)
(*   task-2/main.py  directional motion blur                               *)
(*                                                                         *)
(* An image buffer is a record [height, width, channels, pix]; pix is the  *)
(* function from the coordinates <<x, y>> of the pixels that are not black *)
(* to their <<B, G, R>> value, every other pixel of the height x width     *)
(* grid being <<0, 0, 0>>.                                                 *)
(***************************************************************************)
EXTENDS Integers, Sequences, FiniteSets, TLC

VARIABLES task, pc, args, disk, image, kernel, blurred_image, ret, raised,
          log, files, steps

vars == <<task, pc, args, disk, image, kernel, blurred_image, ret, raised,
          log, files, steps>>

(* ------------------------------ bounds -------------------------------- *)
\* largest image height / width the validator is called with
MaxH == 3
MaxW == 3
\* largest kernel size (in absolute value) create_motion_blur_kernel is called with
MaxSize == 7
\* height and the two widths of the decoded test images that are blurred
BlurH == 2
BlurW == 17
NarrowW == 4
\* height and width of the decoded test image that is drawn on
DrawH == 6
DrawW == 8

(* ------------------------- program constants -------------------------- *)
DEFAULT_COLOR_RECTANGLE == <<0, 0, 255>>
DEFAULT_COLOR_CIRCLE == <<0, 255, 0>>
DEFAULT_COLOR_TEXT == <<255, 0, 0>>
DEFAULT_THICKNESS == 2
\* DEFAULT_FONT_SCALE = 0.8, kept in tenths
DEFAULT_FONT_SCALE == 8
DEFAULT_TEXT == "Sample Text"
DEFAULT_OUTPUT_NAME == "output_image.jpg"
DEFAULT_KERNEL_SIZE == 15
DEFAULT_DIRECTION == "horizontal"
BLUR_OUTPUT_NAME == "motion_blur_output.jpg"

(* ------------------------------ buffers ------------------------------- *)
Black == <<0, 0, 0>>
EmptyPix == [p \in {} |-> Black]
NoImage == [height |-> 0, width |-> 0, channels |-> 0, pix |-> EmptyPix]
NoKernel == [size |-> 0, num |-> <<>>, den |-> 1]
\* Python's None and the values of a path
None == "None"

\* np.zeros((h, w, 3), dtype=np.uint8)
np_zeros(h, w, c) == [height |-> h, width |-> w, channels |-> c, pix |-> EmptyPix]

Pixels(img) == (0 .. img.width - 1) \X (0 .. img.height - 1)

PixelAt(img, p) == IF p \in DOMAIN img.pix THEN img.pix[p] ELSE Black

\* the buffer with the pixels of footprint F (clipped to the grid) set to color
Paint(img, F, color) ==
    LET G == {p \in F : p[1] >= 0 /\ p[1] < img.width /\ p[2] >= 0 /\ p[2] < img.height}
        D == IF color = Black THEN DOMAIN img.pix \ G ELSE DOMAIN img.pix \cup G
    IN  [img EXCEPT !.pix = [p \in D |-> IF p \in G THEN color ELSE img.pix[p]]]

(* -------------------- the file system and the codec ------------------- *)
\* what a path names: nothing, a file cv2.imread cannot decode, or an image
Absent == [kind |-> "absent", img |-> NoImage]
Undecodable == [kind |-> "undecodable", img |-> NoImage]
ImageFile(img) == [kind |-> "image", img |-> img]

\* os.path.exists(path)
os_path_exists(path, d) == path # "" /\ path # None /\ d.kind # "absent"

\* cv2.imread(path): the decoded buffer, or None (NoImage here)
cv2_imread(path, d) == IF d.kind = "image" THEN d.img ELSE NoImage

load_image_no_fallback(image_path, d) == cv2_imread(image_path, d)

\* task-1 load_image
load_image(image_path, d) ==
    IF image_path # None /\ image_path # "" /\ os_path_exists(image_path, d)
         /\ cv2_imread(image_path, d) # NoImage
    THEN cv2_imread(image_path, d)
    ELSE np_zeros(400, 600, 3)

(* ------------------------- task-1: validation ------------------------- *)
validate_rectangle_nonstrict(img, coordinates) ==
    LET x1 == coordinates[1]  y1 == coordinates[2]
        x2 == coordinates[3]  y2 == coordinates[4]
    IN  0 <= x1 /\ x1 < img.width /\ 0 <= y1 /\ y1 < img.height
        /\ 0 <= x2 /\ x2 < img.width /\ 0 <= y2 /\ y2 < img.height
        /\ x1 <= x2 /\ y1 <= y2

validate_rectangle(img, coordinates) ==
    LET x1 == coordinates[1]  y1 == coordinates[2]
        x2 == coordinates[3]  y2 == coordinates[4]
    IN  0 <= x1 /\ x1 < img.width /\ 0 <= y1 /\ y1 < img.height
        /\ 0 <= x2 /\ x2 < img.width /\ 0 <= y2 /\ y2 < img.height
        /\ x1 < x2 /\ y1 < y2

validate_circle_inclusive(img, coordinates) ==
    LET x == coordinates[1]  y == coordinates[2]  radius == coordinates[3]
    IN  0 <= x - radius /\ x + radius <= img.width
        /\ 0 <= y - radius /\ y + radius <= img.height
        /\ radius > 0

validate_circle(img, coordinates) ==
    LET x == coordinates[1]  y == coordinates[2]  radius == coordinates[3]
    IN  0 <= x - radius /\ x + radius < img.width
        /\ 0 <= y - radius /\ y + radius < img.height
        /\ radius > 0

validate_text_inclusive(img, coordinates) ==
    LET x == coordinates[1]  y == coordinates[2]
    IN  0 <= x /\ x <= img.width /\ 0 <= y /\ y <= img.height

validate_text(img, coordinates) ==
    LET x == coordinates[1]  y == coordinates[2]
    IN  0 <= x /\ x < img.width /\ 0 <= y /\ y < img.height

validate_coordinates(img, coordinates, shape_type) ==
    IF shape_type = "rectangle" THEN validate_rectangle(img, coordinates)
    ELSE IF shape_type = "circle" THEN validate_circle(img, coordinates)
    ELSE IF shape_type = "text" THEN validate_text(img, coordinates)
    ELSE FALSE

(* ------------- SpecValidate: validate_coordinates, called -------------- *)
Texts == {"", DEFAULT_TEXT}
FontScales == {DEFAULT_FONT_SCALE, 20}

\* the calls draw_rectangle, draw_circle and draw_text make, and calls with
\* a shape tag the validator does not know
ValidateCalls ==
    LET X == -1 .. MaxW + 1
        Y == -1 .. MaxH + 1
        R == -1 .. MaxW
    IN  {[shape_type |-> "rectangle", coordinates |-> <<x1, y1, x2, y2>>,
          text |-> "", font_scale |-> 0] : x1 \in X, y1 \in Y, x2 \in X, y2 \in Y}
        \cup {[shape_type |-> "circle", coordinates |-> <<x, y, r>>,
               text |-> "", font_scale |-> 0] : x \in X, y \in Y, r \in R}
        \cup {[shape_type |-> "text", coordinates |-> <<x, y>>,
               text |-> t, font_scale |-> f] : x \in X, y \in Y, t \in Texts, f \in FontScales}
        \cup {[shape_type |-> s, coordinates |-> <<x, y>>,
               text |-> "", font_scale |-> 0] : s \in {"triangle", "", "Rectangle"}, x \in X, y \in Y}

InitValidate ==
    /\ task = "validate" /\ pc = "call"
    /\ args \in ValidateCalls
    /\ \E h \in 1 .. MaxH, w \in 1 .. MaxW : image = np_zeros(h, w, 3)
    /\ disk = Absent /\ kernel = NoKernel /\ blurred_image = NoImage
    /\ ret = FALSE /\ raised = "none" /\ log = <<>> /\ files = <<>> /\ steps = <<>>

ValidateCall ==
    /\ task = "validate" /\ pc = "call"
    /\ ret' = validate_coordinates(image, args.coordinates, args.shape_type)
    /\ pc' = "returned"
    /\ UNCHANGED <<task, args, disk, image, kernel, blurred_image, raised, log, files, steps>>

NextValidate == ValidateCall

SpecValidate == InitValidate /\ [][NextValidate]_vars

Returned == task = "validate" /\ pc = "returned"

\* C3: a rectangle is valid iff both corners lie inside the image and
\* x1 < x2 and y1 < y2 (swapped or equal corners are rejected).
C3_RectangleIff ==
    (Returned /\ args.shape_type = "rectangle") =>
        LET c == args.coordinates
        IN  ret = (/\ c[1] \in 0 .. image.width - 1 /\ c[3] \in 0 .. image.width - 1
                   /\ c[2] \in 0 .. image.height - 1 /\ c[4] \in 0 .. image.height - 1
                   /\ c[1] < c[3] /\ c[2] < c[4])

\* an accepted rectangle, and the same corners swapped are then rejected
C3_Witness ==
    /\ Returned /\ args.shape_type = "rectangle" /\ ret = TRUE
    /\ ~validate_coordinates(image, <<args.coordinates[3], args.coordinates[4],
                                      args.coordinates[1], args.coordinates[2]>>, "rectangle")

\* C4: a circle is valid iff x - radius >= 0, x + radius < W, y - radius >= 0,
\* y + radius < H and radius > 0; x + radius = W - 1 passes, x + radius = W fails.
C4_CircleIff ==
    (Returned /\ args.shape_type = "circle") =>
        LET x == args.coordinates[1]
            y == args.coordinates[2]
            radius == args.coordinates[3]
        IN  /\ ret = (/\ x - radius >= 0 /\ x + radius < image.width
                      /\ y - radius >= 0 /\ y + radius < image.height
                      /\ radius > 0)
            /\ (x + radius = image.width => ret = FALSE)

\* a circle whose rightmost column is exactly W - 1 is accepted
C4_Witness ==
    /\ Returned /\ args.shape_type = "circle" /\ ret = TRUE
    /\ args.coordinates[1] + args.coordinates[3] = image.width - 1

\* C5: text is valid iff its anchor lies inside the image, whatever the text
\* and the font scale; an unknown shape tag is never valid.
C5_TextIffAndUnknownTag ==
    Returned =>
        /\ args.shape_type = "text" =>
              ret = (/\ 0 <= args.coordinates[1] /\ args.coordinates[1] < image.width
                     /\ 0 <= args.coordinates[2] /\ args.coordinates[2] < image.height)
        /\ args.shape_type \notin {"rectangle", "circle", "text"} => ret = FALSE

\* a text longer than the image is wide is accepted at an anchor on the last column
C5_Witness ==
    /\ Returned /\ args.shape_type = "text" /\ ret = TRUE
    /\ args.text = DEFAULT_TEXT /\ args.coordinates[1] = image.width - 1

(* ----------------------- task-2: the blur kernel ---------------------- *)
\* A kernel is [size, num, den]: cell <<row, column>> holds num[<<row, column>>] / den.
\* The weights are float64 in the program and exact rationals here.

\* np.zeros((kernel_size, kernel_size))
np_zeros_kernel(kernel_size) ==
    [size |-> kernel_size,
     num |-> [c \in (0 .. kernel_size - 1) \X (0 .. kernel_size - 1) |-> 0],
     den |-> 1]

\* int((kernel_size-1)/2)
center_index(kernel_size) == (kernel_size - 1) \div 2

set_center_row_transposed(k) ==
    [k EXCEPT !.num = [c \in DOMAIN k.num |->
                          IF c[2] = center_index(k.size) THEN 1 ELSE k.num[c]]]

\* kernel[center, :] = np.ones(kernel_size)
set_center_row(k) ==
    [k EXCEPT !.num = [c \in DOMAIN k.num |->
                          IF c[1] = center_index(k.size) THEN 1 ELSE k.num[c]]]

\* kernel[:, center] = np.ones(kernel_size)
set_center_column(k) ==
    [k EXCEPT !.num = [c \in DOMAIN k.num |->
                          IF c[2] = center_index(k.size) THEN 1 ELSE k.num[c]]]

divide_kernel_skipped(k, kernel_size) == k

\* kernel /= kernel_size
divide_kernel(k, kernel_size) == [k EXCEPT !.den = k.den * kernel_size]

Raise(e) == [raised |-> e, kernel |-> NoKernel]

create_motion_blur_kernel_default_direction(kernel_size, direction) ==
    IF kernel_size % 2 = 0 THEN Raise("ValueError")
    ELSE IF kernel_size < 0 THEN Raise("ValueError")
    ELSE IF direction = "vertical"
    THEN [raised |-> "none",
          kernel |-> divide_kernel(set_center_column(np_zeros_kernel(kernel_size)), kernel_size)]
    ELSE [raised |-> "none",
          kernel |-> divide_kernel(set_center_row(np_zeros_kernel(kernel_size)), kernel_size)]

\* [raised, kernel]: the exception the call ends with ("none": it returns), and
\* the kernel it returns. np.zeros raises ValueError for a negative dimension.
create_motion_blur_kernel(kernel_size, direction) ==
    IF kernel_size % 2 = 0 THEN Raise("ValueError")
    ELSE IF kernel_size < 0 THEN Raise("ValueError")
    ELSE IF direction = "horizontal"
    THEN [raised |-> "none",
          kernel |-> divide_kernel(set_center_row(np_zeros_kernel(kernel_size)), kernel_size)]
    ELSE IF direction = "vertical"
    THEN [raised |-> "none",
          kernel |-> divide_kernel(set_center_column(np_zeros_kernel(kernel_size)), kernel_size)]
    ELSE Raise("ValueError")

(* ------------ SpecKernel: create_motion_blur_kernel, called ------------ *)
Directions == {"horizontal", "vertical", "diagonal", "", "Horizontal"}

InitKernel ==
    /\ task = "kernel" /\ pc = "call"
    /\ args \in [kernel_size : -MaxSize .. MaxSize, direction : Directions]
    /\ disk = Absent /\ image = NoImage /\ kernel = NoKernel /\ blurred_image = NoImage
    /\ ret = FALSE /\ raised = "none" /\ log = <<>> /\ files = <<>> /\ steps = <<>>

KernelCall ==
    /\ task = "kernel" /\ pc = "call"
    /\ LET r == create_motion_blur_kernel(args.kernel_size, args.direction)
       IN  /\ raised' = r.raised
           /\ kernel' = r.kernel
    /\ pc' = "returned"
    /\ UNCHANGED <<task, args, disk, image, blurred_image, ret, log, files, steps>>

NextKernel == KernelCall

SpecKernel == InitKernel /\ [][NextKernel]_vars

RECURSIVE SumOver(_, _)
\* the sum of f over the finite set S of its arguments
SumOver(f, S) ==
    IF S = {} THEN 0
    ELSE LET c == CHOOSE c \in S : TRUE IN f[c] + SumOver(f, S \ {c})

KernelReturned == task = "kernel" /\ pc = "returned"

\* C1: for an odd size K >= 1 and a known direction the kernel is K x K, holds
\* 1/K exactly on the center row (horizontal) or center column (vertical), index
\* (K-1)/2, holds 0 elsewhere, and its weights sum to 1.
C1_KernelShape ==
    (KernelReturned /\ args.kernel_size >= 1 /\ args.kernel_size % 2 = 1
        /\ args.direction \in {"horizontal", "vertical"}) =>
        LET K == args.kernel_size
            mid == (K - 1) \div 2
            OnLine(c) == IF args.direction = "horizontal" THEN c[1] = mid ELSE c[2] = mid
        IN  /\ raised = "none"
            /\ kernel.size = K
            /\ DOMAIN kernel.num = (0 .. K - 1) \X (0 .. K - 1)
            /\ kernel.den > 0
            /\ \A c \in DOMAIN kernel.num :
                  IF OnLine(c) THEN kernel.num[c] * K = kernel.den
                               ELSE kernel.num[c] = 0
            /\ SumOver(kernel.num, DOMAIN kernel.num) = kernel.den

\* a vertical kernel of more than one cell was built
C1_Witness ==
    /\ KernelReturned /\ raised = "none" /\ args.direction = "vertical"
    /\ kernel.size >= 3 /\ kernel.num[<<0, center_index(kernel.size)>>] = 1

\* C2: an even size, or a direction other than 'horizontal' and 'vertical',
\* ends the call with ValueError and no kernel.
C2_InvalidParameter ==
    (KernelReturned /\ (args.kernel_size % 2 = 0
                        \/ args.direction \notin {"horizontal", "vertical"})) =>
        /\ raised = "ValueError"
        /\ kernel = NoKernel

\* an odd size with an unknown direction was refused
C2_Witness ==
    /\ KernelReturned /\ raised = "ValueError"
    /\ args.kernel_size = 3 /\ args.direction = "diagonal"

(* -------------------- task-1: the drawing primitives ------------------- *)
\* The footprints of OpenCV's primitives, clipped to the grid by Paint. A stroke
\* of thickness t covers the outline widened by t \div 2 outwards and
\* (t - 1) \div 2 inwards; a negative thickness (cv2.FILLED) fills the shape.

\* cv2.rectangle(image, start_point, end_point, color, thickness)
cv2_rectangle(img, start_point, end_point, color, thickness) ==
    LET x1 == start_point[1]  y1 == start_point[2]
        x2 == end_point[1]    y2 == end_point[2]
        o == IF thickness < 0 THEN 0 ELSE thickness \div 2
        i == IF thickness < 0 THEN 0 ELSE (thickness - 1) \div 2
        Box == (x1 - o .. x2 + o) \X (y1 - o .. y2 + o)
        Inside(p) == /\ x1 + i < p[1] /\ p[1] < x2 - i
                     /\ y1 + i < p[2] /\ p[2] < y2 - i
    IN  Paint(img, {p \in Box : thickness < 0 \/ ~Inside(p)}, color)

\* cv2.circle(image, center, radius, color, thickness)
cv2_circle(img, center, radius, color, thickness) ==
    LET o == IF thickness < 0 THEN 0 ELSE thickness \div 2
        i == IF thickness < 0 THEN 0 ELSE (thickness - 1) \div 2
        far == radius + o
        Box == (center[1] - far .. center[1] + far) \X (center[2] - far .. center[2] + far)
        D2(p) == (p[1] - center[1]) * (p[1] - center[1])
                   + (p[2] - center[2]) * (p[2] - center[2])
        \* within half a pixel of the stroke: 2(r-i)-1 < 2d < 2(r+o)+1
        Near(p) == /\ 4 * D2(p) < (2 * far + 1) * (2 * far + 1)
                   /\ \/ 2 * (radius - i) - 1 < 0
                      \/ 4 * D2(p) > (2 * (radius - i) - 1) * (2 * (radius - i) - 1)
        Disc(p) == D2(p) <= radius * radius
    IN  Paint(img, {p \in Box : IF thickness < 0 THEN Disc(p) ELSE Near(p)}, color)

\* cv2.putText(image, text, position, font, font_scale, color, thickness, line_type):
\* the glyphs, here the cell box of the text. position is the bottom-left corner;
\* a Hershey simplex cell is about 20 x 22 pixels at scale 1.0 (font_scale in tenths).
cv2_putText(img, text, position, font, font_scale, color, thickness) ==
    LET w == Len(text) * ((20 * font_scale) \div 10)
        h == (22 * font_scale) \div 10
        Box == (position[1] .. position[1] + w - 1) \X (position[2] - h + 1 .. position[2])
    IN  Paint(img, Box, color)

\* the warnings the draw_* functions print (in Russian in the program)
WarnRectangle == "Warning: rectangle coordinates are outside the image"
WarnCircle == "Warning: circle coordinates are outside the image"
WarnText == "Warning: text coordinates are outside the image"

\* the draw_* functions return [image, printed]: the buffer and the lines printed

draw_rectangle(img, start_point, end_point, color, thickness) ==
    IF validate_coordinates(img, start_point \o end_point, "rectangle")
    THEN [image |-> cv2_rectangle(img, start_point, end_point, color, thickness),
          printed |-> <<>>]
    ELSE [image |-> img, printed |-> <<WarnRectangle>>]

draw_circle(img, center, radius, color, thickness) ==
    IF validate_coordinates(img, center \o <<radius>>, "circle")
    THEN [image |-> cv2_circle(img, center, radius, color, thickness), printed |-> <<>>]
    ELSE [image |-> img, printed |-> <<WarnCircle>>]

draw_text_unchecked(img, text, position, font, font_scale, color, thickness) ==
    [image |-> cv2_putText(img, text, position, font, font_scale, color, thickness),
     printed |-> <<>>]

draw_text(img, text, position, font, font_scale, color, thickness) ==
    IF validate_coordinates(img, position, "text")
    THEN [image |-> cv2_putText(img, text, position, font, font_scale, color, thickness),
          printed |-> <<>>]
    ELSE [image |-> img, printed |-> <<WarnText>>]

(* ---------------- SpecDraw: task-1 process_single_image ---------------- *)
InPath == "in.png"

\* a decoded DrawH x DrawW image with one white pixel
SmallImage ==
    [np_zeros(DrawH, DrawW, 3) EXCEPT !.pix = [p \in {<<0, 0>>} |-> <<255, 255, 255>>]]

\* the path given and what the disk holds there
DrawInputs ==
    {<<None, Absent>>, <<"", Absent>>, <<InPath, Absent>>, <<InPath, Undecodable>>,
     <<InPath, ImageFile(SmallImage)>>}

\* (start_point, end_point, color, thickness): main's rectangle, one inside the
\* small image, the same with its corners swapped, one past the small image's right edge
RectChoices ==
    {<<<<50, 50>>, <<200, 200>>, DEFAULT_COLOR_RECTANGLE, DEFAULT_THICKNESS>>,
     <<<<1, 1>>, <<4, 3>>, DEFAULT_COLOR_RECTANGLE, 1>>,
     <<<<4, 3>>, <<1, 1>>, DEFAULT_COLOR_RECTANGLE, DEFAULT_THICKNESS>>,
     <<<<1, 1>>, <<DrawW, 3>>, DEFAULT_COLOR_RECTANGLE, -1>>}

\* (center, radius, color, thickness)
CircleChoices ==
    {<<<<300, 300>>, 50, DEFAULT_COLOR_CIRCLE, DEFAULT_THICKNESS>>,
     <<<<3, 2>>, 2, DEFAULT_COLOR_CIRCLE, 1>>,
     <<<<3, 2>>, 0, DEFAULT_COLOR_CIRCLE, DEFAULT_THICKNESS>>,
     <<<<DrawW - 2, 2>>, 2, DEFAULT_COLOR_CIRCLE, -1>>}

\* (text, position, font, font_scale, color, thickness)
TextChoices ==
    {<<DEFAULT_TEXT, <<50, 300>>, "FONT_HERSHEY_SIMPLEX", DEFAULT_FONT_SCALE,
       DEFAULT_COLOR_TEXT, DEFAULT_THICKNESS>>,
     <<DEFAULT_TEXT, <<DrawW - 1, DrawH - 1>>, "FONT_HERSHEY_SIMPLEX", DEFAULT_FONT_SCALE,
       DEFAULT_COLOR_TEXT, DEFAULT_THICKNESS>>,
     <<"", <<0, 0>>, "FONT_HERSHEY_SIMPLEX", 20, DEFAULT_COLOR_TEXT, 1>>,
     <<DEFAULT_TEXT, <<600, 10>>, "FONT_HERSHEY_SIMPLEX", DEFAULT_FONT_SCALE,
       DEFAULT_COLOR_TEXT, DEFAULT_THICKNESS>>,
     <<"Hi", <<-1, 2>>, "FONT_HERSHEY_SIMPLEX", DEFAULT_FONT_SCALE,
       DEFAULT_COLOR_TEXT, DEFAULT_THICKNESS>>}

InitDraw ==
    /\ task = "draw" /\ pc = "load"
    /\ \E in \in DrawInputs, r \in RectChoices, c \in CircleChoices, t \in TextChoices :
          /\ disk = in[2]
          /\ args = [input_path |-> in[1], output_path |-> DEFAULT_OUTPUT_NAME,
                     rect_params |-> r, circle_params |-> c, text_params |-> t]
    /\ image = NoImage /\ kernel = NoKernel /\ blurred_image = NoImage
    /\ ret = NoImage /\ raised = "none" /\ log = <<>> /\ files = <<>> /\ steps = <<>>

\* image = load_image(input_path)
Draw_Load ==
    /\ task = "draw" /\ pc = "load"
    /\ image' = load_image(args.input_path, disk)
    /\ pc' = "rectangle"
    /\ steps' = Append(steps, "load")
    /\ UNCHANGED <<task, args, disk, kernel, blurred_image, ret, raised, log, files>>

Draw_Rectangle_returns_early ==
    /\ task = "draw" /\ pc = "rectangle"
    /\ LET p == args.rect_params
           r == draw_rectangle(image, p[1], p[2], p[3], p[4])
       IN  /\ image' = r.image
           /\ log' = log \o r.printed
           /\ pc' = IF r.printed = <<>> THEN "circle" ELSE "done"
    /\ steps' = Append(steps, "rectangle")
    /\ UNCHANGED <<task, args, disk, kernel, blurred_image, ret, raised, files>>

\* image = draw_rectangle(image, *rect_params)
Draw_Rectangle ==
    /\ task = "draw" /\ pc = "rectangle"
    /\ LET p == args.rect_params
           r == draw_rectangle(image, p[1], p[2], p[3], p[4])
       IN  /\ image' = r.image
           /\ log' = log \o r.printed
    /\ pc' = "circle"
    /\ steps' = Append(steps, "rectangle")
    /\ UNCHANGED <<task, args, disk, kernel, blurred_image, ret, raised, files>>

\* image = draw_circle(image, *circle_params)
Draw_Circle ==
    /\ task = "draw" /\ pc = "circle"
    /\ LET p == args.circle_params
           r == draw_circle(image, p[1], p[2], p[3], p[4])
       IN  /\ image' = r.image
           /\ log' = log \o r.printed
    /\ pc' = "text"
    /\ steps' = Append(steps, "circle")
    /\ UNCHANGED <<task, args, disk, kernel, blurred_image, ret, raised, files>>

\* image = draw_text(image, *text_params)
Draw_Text ==
    /\ task = "draw" /\ pc = "text"
    /\ LET p == args.text_params
           r == draw_text(image, p[1], p[2], p[3], p[4], p[5], p[6])
       IN  /\ image' = r.image
           /\ log' = log \o r.printed
    /\ pc' = "persist"
    /\ steps' = Append(steps, "text")
    /\ UNCHANGED <<task, args, disk, kernel, blurred_image, ret, raised, files>>

\* cv2.imwrite(output_path, image); print(...); return image
Draw_Persist ==
    /\ task = "draw" /\ pc = "persist"
    /\ files' = Append(files, [path |-> args.output_path, image |-> image])
    /\ log' = Append(log, "Processed")
    /\ ret' = image
    /\ pc' = "done"
    /\ steps' = Append(steps, "persist")
    /\ UNCHANGED <<task, args, disk, image, kernel, blurred_image, raised>>

NextDraw == Draw_Load \/ Draw_Rectangle \/ Draw_Circle \/ Draw_Text \/ Draw_Persist

SpecDraw == InitDraw /\ [][NextDraw]_vars

\* the bounds conditions of the three shapes, as the specification states them
InBoundsRectangle(img, p1, p2) ==
    /\ p1[1] \in 0 .. img.width - 1 /\ p2[1] \in 0 .. img.width - 1
    /\ p1[2] \in 0 .. img.height - 1 /\ p2[2] \in 0 .. img.height - 1
    /\ p1[1] < p2[1] /\ p1[2] < p2[2]

InBoundsCircle(img, c, r) ==
    /\ c[1] - r >= 0 /\ c[1] + r < img.width
    /\ c[2] - r >= 0 /\ c[2] + r < img.height
    /\ r > 0

InBoundsText(img, p) == p[1] \in 0 .. img.width - 1 /\ p[2] \in 0 .. img.height - 1

\* C6: a draw_rectangle, draw_circle or draw_text call whose shape fails the
\* bounds validation leaves every pixel as it was, prints one warning, raises
\* nothing and hands the same buffer on to the next step.
C6_InvalidShapeSkipped ==
    [][/\ (task = "draw" /\ pc = "rectangle"
             /\ ~InBoundsRectangle(image, args.rect_params[1], args.rect_params[2]))
          => (image' = image /\ log' = Append(log, WarnRectangle)
                /\ raised' = "none" /\ pc' = "circle")
       /\ (task = "draw" /\ pc = "circle"
             /\ ~InBoundsCircle(image, args.circle_params[1], args.circle_params[2]))
          => (image' = image /\ log' = Append(log, WarnCircle)
                /\ raised' = "none" /\ pc' = "text")
       /\ (task = "draw" /\ pc = "text" /\ ~InBoundsText(image, args.text_params[2]))
          => (image' = image /\ log' = Append(log, WarnText)
                /\ raised' = "none" /\ pc' = "persist")]_vars

\* all three shapes were refused and the buffer is still the loaded one
C6_Witness ==
    /\ task = "draw" /\ pc = "persist"
    /\ log = <<WarnRectangle, WarnCircle, WarnText>>
    /\ image = SmallImage

StepOrder == <<"load", "rectangle", "circle", "text", "persist">>

\* the buffer after the steps before position n of StepOrder, each shape drawn
\* exactly when it is in bounds of the buffer it is drawn on
BufferBefore(n) ==
    LET i0 == NoImage
        i1 == IF args.input_path = InPath /\ disk.kind = "image"
              THEN disk.img ELSE np_zeros(400, 600, 3)
        r == args.rect_params
        i2 == IF InBoundsRectangle(i1, r[1], r[2])
              THEN cv2_rectangle(i1, r[1], r[2], r[3], r[4]) ELSE i1
        c == args.circle_params
        i3 == IF InBoundsCircle(i2, c[1], c[2])
              THEN cv2_circle(i2, c[1], c[2], c[3], c[4]) ELSE i2
        t == args.text_params
        i4 == IF InBoundsText(i3, t[2])
              THEN cv2_putText(i3, t[1], t[2], t[3], t[4], t[5], t[6]) ELSE i3
    IN  <<i0, i1, i2, i3, i4, i4>>[n]

\* C10: task-1 process_single_image runs load, rectangle, circle, text, persist in
\* this order on one buffer; each shape is drawn exactly when it is valid, whatever
\* happened to the shapes before it; the output is written exactly once, after the
\* three render steps, also when all three shapes are refused.
C10_PipelineOrder ==
    task = "draw" =>
        LET n == Len(steps)
        IN  /\ n <= 5
            /\ steps = SubSeq(StepOrder, 1, n)
            /\ pc = (StepOrder \o <<"done">>)[n + 1]
            /\ image = BufferBefore(n + 1)
            /\ raised = "none"
            /\ Len(files) = (IF pc = "done" THEN 1 ELSE 0)
            /\ pc = "done" => /\ files[1] = [path |-> args.output_path, image |-> image]
                              /\ ret = image

\* the rectangle was refused, the circle after it was drawn, the output written once
C10_Witness ==
    /\ task = "draw" /\ pc = "done"
    /\ WarnRectangle \in {log[i] : i \in 1 .. Len(log)}
    /\ WarnCircle \notin {log[i] : i \in 1 .. Len(log)}
    /\ \E p \in DOMAIN image.pix : image.pix[p] = DEFAULT_COLOR_CIRCLE
    /\ Len(files) = 1

(* ------------------------- task-2: the blur --------------------------- *)
\* task-2 load_image
load_image_t2(image_path, d) ==
    IF image_path # None /\ image_path # "" /\ os_path_exists(image_path, d)
         /\ cv2_imread(image_path, d) # NoImage
    THEN cv2_imread(image_path, d)
    ELSE np_zeros(400, 600, 3)

RECURSIVE border_reflect_101(_, _)
\* cv::borderInterpolate(p, len, BORDER_REFLECT_101), filter2D's default border:
\* gfedcb|abcdefgh|gfedcba
border_reflect_101(p, len) ==
    IF 0 <= p /\ p < len THEN p
    ELSE IF len = 1 THEN 0
    ELSE IF p < 0 THEN border_reflect_101(-p, len)
    ELSE border_reflect_101(2 * len - 2 - p, len)

\* cvRound(n / d) for n >= 0, d > 0: to the nearest integer, a tie to the even one
cvRound(n, d) ==
    LET q == n \div d
        r == n % d
    IN  IF 2 * r < d THEN q
        ELSE IF 2 * r > d THEN q + 1
        ELSE IF q % 2 = 0 THEN q ELSE q + 1

\* saturate_cast<uchar>(n / d)
saturate_cast_uchar(n, d) ==
    LET v == cvRound(n, d) IN IF v > 255 THEN 255 ELSE IF v < 0 THEN 0 ELSE v

\* cv2.filter2D(image, -1, kernel): dst(x, y) = sum over the kernel cells
\* <<row, column>> of kernel(row, column) * src(x + column - a, y + row - a), with
\* the anchor a at the kernel's center, positions outside the image taken by
\* border_reflect_101, the sum cast to the source's depth. The sum is taken
\* source pixel by source pixel (black ones add nothing): Taps(p, q) are the
\* kernel cells with a weight whose position, for destination p, is source q.
cv2_filter2D(img, k) ==
    LET a == k.size \div 2
        Cells == {c \in DOMAIN k.num : k.num[c] # 0}
        Taps(p, q) ==
            {c \in Cells : /\ border_reflect_101(p[1] + c[2] - a, img.width) = q[1]
                           /\ border_reflect_101(p[2] + c[1] - a, img.height) = q[2]}
        Weight(p, q) == SumOver(k.num, Taps(p, q))
        Ink == DOMAIN img.pix
        Acc(p) == [q \in Ink |-> <<img.pix[q][1] * Weight(p, q),
                                   img.pix[q][2] * Weight(p, q),
                                   img.pix[q][3] * Weight(p, q)>>]
        Total(p, ch) == LET f == Acc(p) IN SumOver([q \in Ink |-> f[q][ch]], Ink)
        Dst == [p \in Pixels(img) |-> <<saturate_cast_uchar(Total(p, 1), k.den),
                                        saturate_cast_uchar(Total(p, 2), k.den),
                                        saturate_cast_uchar(Total(p, 3), k.den)>>]
        Lit == {p \in Pixels(img) : Dst[p] # Black}
    IN  [img EXCEPT !.pix = [p \in Lit |-> Dst[p]]]

\* apply_motion_blur(image, kernel)
apply_motion_blur(img, k) == cv2_filter2D(img, k)

(* ------------------- the decoded images that are blurred --------------- *)
DotColors == {<<255, 255, 255>>, <<0, 100, 8>>, <<1, 7, 15>>}

\* a black h x w image with the one pixel c set to v
DotImage(h, w, c, v) == [np_zeros(h, w, 3) EXCEPT !.pix = [p \in {c} |-> v]]

BlurWidths == {NarrowW, BlurW}

BlurImages ==
    {np_zeros(BlurH, w, 3) : w \in BlurWidths}
    \cup UNION {{DotImage(BlurH, w, <<x, y>>, v) :
                    x \in 0 .. w - 1, y \in 0 .. BlurH - 1, v \in DotColors} : w \in BlurWidths}

\* the path given and what the disk holds there
BlurInputs ==
    {<<None, Absent>>, <<"", Absent>>, <<InPath, Absent>>, <<InPath, Undecodable>>}
    \cup {<<InPath, ImageFile(i)>> : i \in BlurImages}

(* ------------------- SpecLoad: load_image, called ---------------------- *)
InitLoad ==
    /\ task \in {"load-1", "load-2"} /\ pc = "call"
    /\ \E in \in BlurInputs \cup DrawInputs :
          /\ disk = in[2]
          /\ args = [input_path |-> in[1]]
    /\ image = NoImage /\ kernel = NoKernel /\ blurred_image = NoImage
    /\ ret = NoImage /\ raised = "none" /\ log = <<>> /\ files = <<>> /\ steps = <<>>

\* task-1's load_image(image_path)
LoadCall1 ==
    /\ task = "load-1" /\ pc = "call"
    /\ ret' = load_image(args.input_path, disk)
    /\ pc' = "returned"
    /\ UNCHANGED <<task, args, disk, image, kernel, blurred_image, raised, log, files, steps>>

\* task-2's load_image(image_path)
LoadCall2 ==
    /\ task = "load-2" /\ pc = "call"
    /\ ret' = load_image_t2(args.input_path, disk)
    /\ pc' = "returned"
    /\ UNCHANGED <<task, args, disk, image, kernel, blurred_image, raised, log, files, steps>>

NextLoad == LoadCall1 \/ LoadCall2

SpecLoad == InitLoad /\ [][NextLoad]_vars

\* C7: load_image (of either task) raises nothing; with no path, an empty path, a
\* path naming nothing or a file that does not decode it returns a 400 x 600 x 3
\* buffer of zeros, and with a path that decodes it returns the decoded buffer as is.
C7_LoadNeverFails ==
    (task \in {"load-1", "load-2"} /\ pc = "returned") =>
        /\ raised = "none"
        /\ IF args.input_path \notin {None, ""} /\ disk.kind = "image"
           THEN ret = disk.img
           ELSE /\ ret.height = 400 /\ ret.width = 600 /\ ret.channels = 3
                /\ \A p \in Pixels(ret) : PixelAt(ret, p) = Black

\* an existing file that does not decode gave the black canvas
C7_Witness ==
    /\ task = "load-2" /\ pc = "returned"
    /\ args.input_path = InPath /\ disk.kind = "undecodable"
    /\ ret = np_zeros(400, 600, 3)

(* ---------------- SpecBlur: task-2 main, process_single_image ---------- *)
BlurSizes == {-1, 2, 3, DEFAULT_KERNEL_SIZE}
BlurDirections == {"horizontal", "vertical", "diagonal"}

InitBlur ==
    /\ task = "blur"
    /\ \E in \in BlurInputs, size \in BlurSizes, dir \in BlurDirections,
          entry \in {"main", "process_single_image"} :
          /\ disk = in[2]
          /\ args = [input_path |-> in[1], output_path |-> BLUR_OUTPUT_NAME,
                     kernel_size |-> size, direction |-> dir]
          /\ pc = IF entry = "main" THEN "main" ELSE "load"
    /\ image = NoImage /\ kernel = NoKernel /\ blurred_image = NoImage
    /\ ret = NoImage /\ raised = "none" /\ log = <<>> /\ files = <<>> /\ steps = <<>>

\* main, for an input that is no directory: argparse refuses a direction outside
\* its choices, an even kernel_size ends main with a message, and otherwise
\* process_single_image is called with the input if it is a file and None if not
Blur_Main ==
    /\ task = "blur" /\ pc = "main"
    /\ IF args.direction \notin {"horizontal", "vertical"}
       THEN /\ raised' = "SystemExit" /\ pc' = "exit"
            /\ UNCHANGED <<args, log>>
       ELSE IF args.kernel_size % 2 = 0
       THEN /\ log' = Append(log, "Error: kernel_size must be odd") /\ pc' = "exit"
            /\ UNCHANGED <<args, raised>>
       ELSE /\ pc' = "load"
            /\ IF args.input_path \notin {None, ""} /\ disk.kind = "absent"
               THEN /\ args' = [args EXCEPT !.input_path = None]
                    /\ log' = Append(log, "The path does not exist")
               ELSE /\ args' = [args EXCEPT !.input_path =
                                    IF args.input_path = "" THEN None ELSE @]
                    /\ log' = log
            /\ UNCHANGED raised
    /\ steps' = Append(steps, "main")
    /\ UNCHANGED <<task, disk, image, kernel, blurred_image, ret, files>>

\* image = load_image(input_path)
Blur_Load ==
    /\ task = "blur" /\ pc = "load"
    /\ image' = load_image_t2(args.input_path, disk)
    /\ pc' = "kernel"
    /\ steps' = Append(steps, "load")
    /\ UNCHANGED <<task, args, disk, kernel, blurred_image, ret, raised, log, files>>

Blur_Kernel_with_fallback ==
    /\ task = "blur" /\ pc = "kernel"
    /\ LET r == create_motion_blur_kernel(args.kernel_size, args.direction)
       IN  /\ kernel' = IF r.raised = "none" THEN r.kernel
                        ELSE create_motion_blur_kernel(DEFAULT_KERNEL_SIZE,
                                                       DEFAULT_DIRECTION).kernel
           /\ raised' = "none"
           /\ pc' = "apply"
    /\ steps' = Append(steps, "kernel")
    /\ UNCHANGED <<task, args, disk, image, blurred_image, ret, log, files>>

\* kernel = create_motion_blur_kernel(kernel_size, direction); its ValueError is
\* caught nowhere, so it ends process_single_image and its caller
Blur_Kernel ==
    /\ task = "blur" /\ pc = "kernel"
    /\ LET r == create_motion_blur_kernel(args.kernel_size, args.direction)
       IN  /\ kernel' = r.kernel
           /\ raised' = r.raised
           /\ pc' = IF r.raised = "none" THEN "apply" ELSE "raised"
    /\ steps' = Append(steps, "kernel")
    /\ UNCHANGED <<task, args, disk, image, blurred_image, ret, log, files>>

\* blurred_image = apply_motion_blur(image, kernel)
Blur_Apply ==
    /\ task = "blur" /\ pc = "apply"
    /\ blurred_image' = apply_motion_blur(image, kernel)
    /\ pc' = "persist"
    /\ steps' = Append(steps, "apply")
    /\ UNCHANGED <<task, args, disk, image, kernel, ret, raised, log, files>>

\* cv2.imwrite(output_path, blurred_image); print(...); return blurred_image
Blur_Persist ==
    /\ task = "blur" /\ pc = "persist"
    /\ files' = Append(files, [path |-> args.output_path, image |-> blurred_image])
    /\ log' = Append(log, "Processed")
    /\ ret' = blurred_image
    /\ pc' = "done"
    /\ steps' = Append(steps, "persist")
    /\ UNCHANGED <<task, args, disk, image, kernel, blurred_image, raised>>

NextBlur == Blur_Main \/ Blur_Load \/ Blur_Kernel \/ Blur_Apply \/ Blur_Persist

SpecBlur == InitBlur /\ [][NextBlur]_vars

\* C8: when create_motion_blur_kernel fails inside task-2's process_single_image,
\* the ValueError reaches the caller and the image is given up: nothing is
\* convolved and nothing written, and a kernel that is used is always the one
\* asked for, never a substitute.
C8_KernelFailureAborts ==
    task = "blur" =>
        /\ (pc \in {"apply", "persist", "done"}) =>
              /\ args.kernel_size % 2 = 1 /\ args.kernel_size >= 1
              /\ args.direction \in {"horizontal", "vertical"}
              /\ kernel.size = args.kernel_size
              /\ raised = "none"
        /\ (pc = "raised") <=> (raised = "ValueError")
        /\ (pc = "raised") =>
              /\ steps[Len(steps)] = "kernel"
              /\ kernel = NoKernel
              /\ blurred_image = NoImage
              /\ ret = NoImage
              /\ files = <<>>

\* process_single_image, called with an even size, loaded the image and failed
C8_Witness ==
    /\ task = "blur" /\ pc = "raised" /\ raised = "ValueError"
    /\ args.kernel_size = 2 /\ args.direction = "horizontal"
    /\ steps = <<"load", "kernel">> /\ image # NoImage

\* the column a position p outside 0 .. len-1 is mirrored to (reflect-101)
Mirror(p, len) ==
    IF len = 1 THEN 0
    ELSE LET r == p % (2 * len - 2) IN IF r < len THEN r ELSE 2 * len - 2 - r

\* how many of the K taps x - K \div 2 .. x + K \div 2 of column x fall on column c
TapsOn(x, c, len, K) ==
    Cardinality({t \in -(K \div 2) .. (K \div 2) : Mirror(x + t, len) = c})

NearestInteger(n, d) == (2 * n + d) \div (2 * d)

BlurredBy15Horizontal ==
    /\ task = "blur" /\ pc \in {"persist", "done"}
    /\ args.kernel_size = DEFAULT_KERNEL_SIZE /\ args.direction = "horizontal"

\* C9 (as stated): the horizontal kernel of size 15 maps an all-zero canvas to an
\* all-zero canvas of the same dimensions, and a canvas with a single non-zero
\* pixel to one whose non-zero cells lie in that pixel's row, at most 7 columns
\* from it, each holding the original value times 1/15.
C9_AsStated ==
    BlurredBy15Horizontal =>
        /\ blurred_image.height = image.height /\ blurred_image.width = image.width
        /\ DOMAIN image.pix = {} => DOMAIN blurred_image.pix = {}
        /\ \A q \in DOMAIN image.pix :
              DOMAIN image.pix = {q} =>
                 \A p \in DOMAIN blurred_image.pix :
                    /\ p[2] = q[2]
                    /\ p[1] - q[1] \in -7 .. 7
                    /\ \A ch \in 1 .. 3 : 15 * blurred_image.pix[p][ch] = image.pix[q][ch]

\* C9 (amended): as above, but every cell of the pixel's row holds, per channel,
\* the nearest integer to m * v / 15, where v is the original value and m the
\* number of the 15 taps around the cell that fall on the original column, a tap
\* beyond an edge of the image counting at its mirror column; every other row is zero.
C9_SpreadRounded ==
    BlurredBy15Horizontal =>
        /\ blurred_image.height = image.height /\ blurred_image.width = image.width
        /\ blurred_image.channels = image.channels
        /\ DOMAIN image.pix = {} => DOMAIN blurred_image.pix = {}
        /\ \A q \in DOMAIN image.pix :
              DOMAIN image.pix = {q} =>
                 /\ \A p \in DOMAIN blurred_image.pix :
                       p[2] = q[2] /\ p[1] - q[1] \in -7 .. 7
                 /\ \A p \in Pixels(image) : \A ch \in 1 .. 3 :
                       PixelAt(blurred_image, p)[ch] =
                          IF p[2] = q[2]
                          THEN NearestInteger(TapsOn(p[1], q[1], image.width, 15)
                                                 * image.pix[q][ch], 15)
                          ELSE 0

\* a single pixel far from both edges was spread over all 15 columns of its span,
\* to a value that is not a fifteenth of the original
C9_Witness ==
    /\ BlurredBy15Horizontal
    /\ image.width = BlurW
    /\ DOMAIN image.pix = {<<8, 1>>}
    /\ image.pix[<<8, 1>>] = <<0, 100, 8>>
    /\ DOMAIN blurred_image.pix = (1 .. 15) \X {1}
    /\ blurred_image.pix[<<1, 1>>] = <<0, 7, 1>>

====
